---- MODULE Spec2Model ----
(***************************************************************************)
(* The runtime configuration subsystem of pgcat (src/config.rs): the TOML  *)
(* decode, the validation chain of parse(), the process-wide store CONFIG  *)
(* (an ArcSwap<Config>) and reload_config(), as a state machine whose      *)
(* steps are the accesses to shared state (the file system, CONFIG, the    *)
(* connection pools).                                                      *)
(*                                                                         *)
(* Encodings.  Option<T>: None is <<>>, Some(x) is <<x>>.  A String that   *)
(* the code parses (a shard key) is a sequence of one-character strings;   *)
(* every other String is a TLA+ string.  HashMap<String, Shard> is a       *)
(* function whose domain is the set of keys.  A server is the tuple        *)
(* <<host, port, role>>.                                                   *)
(***************************************************************************)
EXTENDS Integers, Sequences, FiniteSets, TLC

None == <<>>
Some(x) == <<x>>
IsSome(o) == o /= <<>>
Unwrap(o) == o[1]

(***************************************************************************)
(* Bounds of the model.                                                    *)
(***************************************************************************)
\* Longest server list of a shard in the enumerated documents.
MaxServers == 2
\* Operations (load or reload calls) started in one behaviour.
MaxOps == 3
\* Modifications of the file system by the environment in one behaviour.
MaxWrites == 2
\* Role comparisons made in one run.
MaxPairs == 3

(***************************************************************************)
(* Schema model: the Default impls.                                        *)
(***************************************************************************)
default_path == "pgcat.toml"

DefaultUser == [name |-> "postgres", password |-> ""]

DefaultGeneral ==
    [host |-> "localhost", port |-> 5432, pool_size |-> 15,
     pool_mode |-> "transaction", connect_timeout |-> 5000,
     healthcheck_timeout |-> 1000, ban_time |-> 60, autoreload |-> FALSE,
     tls_certificate |-> None, tls_private_key |-> None]

DefaultShard ==
    [servers |-> << <<"localhost", 5432, "primary">> >>, database |-> "postgres"]

DefaultQueryRouter ==
    [default_role |-> "any", query_parser_enabled |-> FALSE,
     primary_reads_enabled |-> TRUE, sharding_function |-> "pg_bigint_hash"]

DefaultConfig ==
    [path |-> default_path,
     general |-> DefaultGeneral,
     user |-> DefaultUser,
     shards |-> [k \in {<<"1">>} |-> DefaultShard],
     query_router |-> DefaultQueryRouter]

(***************************************************************************)
(* str::parse::<usize>: an optional leading '+', then one or more decimal  *)
(* digits.  (Keys here are at most two characters long, far below the      *)
(* overflow of usize.)                                                     *)
(***************************************************************************)
Digits == {"0", "1", "2", "3", "4", "5", "6", "7", "8", "9"}

AllDigits(s) == \A i \in 1..Len(s) : s[i] \in Digits

ParseUsizeOk(s) ==
    IF s = <<>> THEN FALSE
    ELSE IF s[1] = "+" THEN Len(s) > 1 /\ AllDigits(Tail(s))
    ELSE AllDigits(s)

(***************************************************************************)
(* toml::from_str::<Config>.  A document gives each top-level key or omits *)
(* it; `path` alone has a serde default, the four sections are required.   *)
(* A file that is not TOML at all is the document Garbage.                 *)
(***************************************************************************)
Garbage == [wellformed |-> FALSE, path |-> None, general |-> None, user |-> None,
            shards |-> None, query_router |-> None]

Doc(path, general, user, shards, query_router) ==
    [wellformed |-> TRUE, path |-> path, general |-> general, user |-> user,
     shards |-> shards, query_router |-> query_router]

DecodeOk(doc) ==
    /\ doc.wellformed
    /\ IsSome(doc.general)
    /\ IsSome(doc.user)
    /\ IsSome(doc.shards)
    /\ IsSome(doc.query_router)

Decode(doc) ==
    [path |-> IF IsSome(doc.path) THEN Unwrap(doc.path) ELSE default_path,
     general |-> Unwrap(doc.general),
     user |-> Unwrap(doc.user),
     shards |-> Unwrap(doc.shards),
     query_router |-> Unwrap(doc.query_router)]

(***************************************************************************)
(* The validation chain of parse(), in the order of the code.              *)
(***************************************************************************)
ShardingFunctionOk(config) ==
    config.query_router.sharding_function \in {"pg_bigint_hash", "sha1"}

\* The loop over one shard's servers: the state is <<dup_check,
\* primary_count>>; a misspelt role returns from parse at once.
RECURSIVE ServerLoop(_, _, _, _)
ServerLoop(servers, i, dup_check, primary_count) ==
    IF i > Len(servers)
    THEN [err |-> FALSE, dup_check |-> dup_check, primary_count |-> primary_count]
    ELSE LET server == servers[i]
             dup == dup_check \cup {server}
             cnt == IF server[3] = "primary" THEN primary_count + 1 ELSE primary_count
         IN IF server[3] \in {"primary", "replica"}
            THEN ServerLoop(servers, i + 1, dup, cnt)
            ELSE [err |-> TRUE, dup_check |-> dup, primary_count |-> cnt]

\* ShardOk without the dup_check comparison.
ShardOk_NoDupCheck(key, shard) ==
    /\ ParseUsizeOk(key)
    /\ Len(shard.servers) /= 0
    /\ LET r == ServerLoop(shard.servers, 1, {}, 0)
       IN ~r.err /\ ~(r.primary_count > 1)

\* ShardOk with the primary count compared against 2 instead of 1.
ShardOk_TwoPrimaries(key, shard) ==
    /\ ParseUsizeOk(key)
    /\ Len(shard.servers) /= 0
    /\ LET r == ServerLoop(shard.servers, 1, {}, 0)
       IN /\ ~r.err
          /\ ~(r.primary_count > 2)
          /\ ~(Cardinality(r.dup_check) /= Len(shard.servers))

\* The body of `for shard in &config.shards`: TRUE when it does not return.
ShardOk(key, shard) ==
    /\ ParseUsizeOk(key)
    /\ Len(shard.servers) /= 0
    /\ LET r == ServerLoop(shard.servers, 1, {}, 0)
       IN /\ ~r.err
          /\ ~(r.primary_count > 1)
          /\ ~(Cardinality(r.dup_check) /= Len(shard.servers))

ShardsOk(config) ==
    \A key \in DOMAIN config.shards : ShardOk(key, config.shards[key])

DefaultRoleOk(config) ==
    config.query_router.default_role \in {"any", "primary", "replica"}

(***************************************************************************)
(* crate::tls::load_certs and load_keys: whether the file at the path      *)
(* decodes.  The credential files do not change in a behaviour.            *)
(***************************************************************************)
load_certs(path) == path \in {"cert.pem"}

load_keys(path) == path \in {"key.pem"}

\* TlsCheck taking an unset key for a good one.
TlsCheck_NoKeyCheck(config) ==
    LET cert == config.general.tls_certificate
        key == config.general.tls_private_key
    IN IF IsSome(cert)
       THEN IF load_certs(Unwrap(cert))
            THEN IF IsSome(key)
                 THEN [ok |-> load_keys(Unwrap(key)),
                       calls |-> <<"load_certs", "load_keys">>]
                 ELSE [ok |-> TRUE, calls |-> <<"load_certs">>]
            ELSE [ok |-> FALSE, calls |-> <<"load_certs">>]
       ELSE [ok |-> TRUE, calls |-> <<>>]

\* TlsCheck decoding the key whenever it is set, whatever the certificate.
TlsCheck_KeyAlways(config) ==
    LET cert == config.general.tls_certificate
        key == config.general.tls_private_key
        keyCalls == IF IsSome(key) THEN <<"load_keys">> ELSE <<>>
        keyOk == IsSome(key) /\ load_keys(Unwrap(key))
    IN IF IsSome(cert)
       THEN [ok |-> load_certs(Unwrap(cert)) /\ keyOk,
             calls |-> <<"load_certs">> \o keyCalls]
       ELSE [ok |-> ~IsSome(key) \/ keyOk, calls |-> keyCalls]

\* The `Validate TLS!` match: the decoders it calls, in order, and whether
\* it lets parse go on.
TlsCheck(config) ==
    LET cert == config.general.tls_certificate
        key == config.general.tls_private_key
    IN IF IsSome(cert)
       THEN IF load_certs(Unwrap(cert))
            THEN IF IsSome(key)
                 THEN [ok |-> load_keys(Unwrap(key)),
                       calls |-> <<"load_certs", "load_keys">>]
                 ELSE [ok |-> FALSE, calls |-> <<"load_certs">>]
            ELSE [ok |-> FALSE, calls |-> <<"load_certs">>]
       ELSE [ok |-> TRUE, calls |-> <<>>]

\* Everything between the decode and `config.path = path`.
Validate(config) ==
    IF ~ShardingFunctionOk(config) THEN [ok |-> FALSE, calls |-> <<>>]
    ELSE IF ~ShardsOk(config) THEN [ok |-> FALSE, calls |-> <<>>]
    ELSE IF ~DefaultRoleOk(config) THEN [ok |-> FALSE, calls |-> <<>>]
    ELSE TlsCheck(config)

(***************************************************************************)
(* State.                                                                  *)
(***************************************************************************)
Procs == {"t1", "t2"}

Paths == {"pgcat.toml", "alt.toml"}

VARIABLES
    CONFIG,      \* the value held by the ArcSwap
    files,       \* the file system: path -> [exists, readable, doc]
    pools,       \* Option: the Config the connection pools were last built from
    nops,        \* operations started so far
    nwrites,     \* file system modifications so far
    pc,          \* per task: where it is in parse / reload_config
    op,          \* per task: "load" (a call of parse) or "reload"
    path,        \* per task: the `path` argument of parse
    contents,    \* per task: Option, the document read by read_to_string
    old_config,  \* per task: Option, reload_config's old_config
    config,      \* per task: Option, the Config parse stored
    new_config,  \* per task: Option, reload_config's new_config
    calls,       \* per task: the TLS decoders parse called, in order
    recreated,   \* per task: whether ConnectionPool::from_config was called
    before,      \* per task (history): Option, CONFIG when the operation began
    result,      \* per task: what the operation returned
    last_load,   \* history: Option, the path of the latest load that returned Ok
    pairs,       \* Role comparisons: the <<Role, Option<Role>>> pairs to compare
    results      \* Role comparisons: <<role == other, other == role>> per pair

vars == <<CONFIG, files, pools, nops, nwrites, pc, op, path, contents,
          old_config, config, new_config, calls, recreated, before, result,
          last_load, pairs, results>>

history == <<last_load>>

roles == <<pairs, results>>

shared == <<CONFIG, files, pools, nwrites>>

Absent == [exists |-> FALSE, readable |-> FALSE, doc |-> Garbage]
Unreadable == [exists |-> TRUE, readable |-> FALSE, doc |-> Garbage]
FileOf(doc) == [exists |-> TRUE, readable |-> TRUE, doc |-> doc]

\* A read that is not one load of the stored pointer: the general section is
\* not the one stored with the rest.
get_config_Torn == [CONFIG EXCEPT !.general = DefaultGeneral]

\* Get a read-only instance of the configuration: a clone of the stored value.
get_config == CONFIG

Idle(p) == pc[p] = "idle"

(***************************************************************************)
(* reload_config's classification of old_config against new_config.        *)
(***************************************************************************)
\* The classification with the user left out, and with the first test gone.
TopologyChanged_ShardsOnly(old, new) == old.shards /= new.shards
TopologyChanged_Never(old, new) == FALSE

TopologyChanged(old, new) == old.shards /= new.shards \/ old.user /= new.user

\* The second test reporting every reload as a change.
Changed_Always(old, new) == TRUE

Changed(old, new) == old /= new

(***************************************************************************)
(* Operations.  Each action is one access to shared state together with    *)
(* the local computation that follows it.                                  *)
(***************************************************************************)
\* A caller invokes parse(f).
Load(p, f) ==
    /\ Idle(p)
    /\ nops < MaxOps
    /\ nops' = nops + 1
    /\ op' = [op EXCEPT ![p] = "load"]
    /\ path' = [path EXCEPT ![p] = f]
    /\ pc' = [pc EXCEPT ![p] = "open"]
    /\ before' = [before EXCEPT ![p] = Some(CONFIG)]
    /\ UNCHANGED <<shared, contents, old_config, config, new_config, calls,
                   recreated, result, history, roles>>

\* Reload parsing the default path instead of old_config.path.
Reload_DefaultPath(p) ==
    /\ Idle(p)
    /\ nops < MaxOps
    /\ nops' = nops + 1
    /\ op' = [op EXCEPT ![p] = "reload"]
    /\ old_config' = [old_config EXCEPT ![p] = Some(get_config)]
    /\ path' = [path EXCEPT ![p] = default_path]
    /\ pc' = [pc EXCEPT ![p] = "open"]
    /\ before' = [before EXCEPT ![p] = Some(CONFIG)]
    /\ UNCHANGED <<shared, contents, config, new_config, calls, recreated, result,
                   history, roles>>

\* reload_config: old_config = get_config(), then parse(&old_config.path).
Reload(p) ==
    /\ Idle(p)
    /\ nops < MaxOps
    /\ nops' = nops + 1
    /\ op' = [op EXCEPT ![p] = "reload"]
    /\ old_config' = [old_config EXCEPT ![p] = Some(get_config)]
    /\ path' = [path EXCEPT ![p] = get_config.path]
    /\ pc' = [pc EXCEPT ![p] = "open"]
    /\ before' = [before EXCEPT ![p] = Some(CONFIG)]
    /\ UNCHANGED <<shared, contents, config, new_config, calls, recreated, result,
                   history, roles>>

\* Fail starting the parse again instead of returning the error.
Fail_Retry(p) ==
    /\ result' = [result EXCEPT ![p] = "BadConfig"]
    /\ pc' = [pc EXCEPT ![p] = "open"]

\* Both parse and reload_config turn every failure of parse into BadConfig.
Fail(p) ==
    /\ result' = [result EXCEPT ![p] = "BadConfig"]
    /\ pc' = [pc EXCEPT ![p] = "done"]

\* File::open(path).
Open(p) ==
    /\ pc[p] = "open"
    /\ IF files[path[p]].exists
       THEN /\ pc' = [pc EXCEPT ![p] = "read"]
            /\ UNCHANGED result
       ELSE Fail(p)
    /\ UNCHANGED <<shared, nops, op, path, contents, old_config, config,
                   new_config, calls, recreated, before, history, roles>>

\* file.read_to_string(&mut contents).  A file removed since the open reads
\* as a read error.
Read(p) ==
    /\ pc[p] = "read"
    /\ IF files[path[p]].readable
       THEN /\ contents' = [contents EXCEPT ![p] = Some(files[path[p]].doc)]
            /\ pc' = [pc EXCEPT ![p] = "parse"]
            /\ UNCHANGED result
       ELSE /\ Fail(p)
            /\ UNCHANGED contents
    /\ UNCHANGED <<shared, nops, op, path, old_config, config, new_config,
                   calls, recreated, before, history, roles>>

\* Stamp with the assignment to config.path left out.
Stamp_Keep(c, f) == c

\* The Config parse stores: the decoded document with the path stamped on it.
Stamp(c, f) == [c EXCEPT !.path = f]

\* ParseOutcome with the validation chain skipped.
ParseOutcome_SkipValidate(doc, f) ==
    IF ~DecodeOk(doc)
    THEN [ok |-> FALSE, calls |-> <<>>, store |-> None]
    ELSE [ok |-> TRUE, calls |-> <<>>, store |-> Some(Stamp(Decode(doc), f))]

\* ParseOutcome with CONFIG.store placed before the validation chain.
ParseOutcome_StoreFirst(doc, f) ==
    IF ~DecodeOk(doc)
    THEN [ok |-> FALSE, calls |-> <<>>, store |-> None]
    ELSE LET v == Validate(Decode(doc))
         IN [ok |-> v.ok, calls |-> v.calls, store |-> Some(Stamp(Decode(doc), f))]

\* parse from toml::from_str to the store, on the document read: whether it
\* returns Ok, the TLS decoders it called, and the value it hands to
\* CONFIG.store, if it gets there.
ParseOutcome(doc, f) ==
    IF ~DecodeOk(doc)
    THEN [ok |-> FALSE, calls |-> <<>>, store |-> None]
    ELSE LET v == Validate(Decode(doc))
         IN IF ~v.ok
            THEN [ok |-> FALSE, calls |-> v.calls, store |-> None]
            ELSE [ok |-> TRUE, calls |-> v.calls,
                  store |-> Some(Stamp(Decode(doc), f))]

\* ParseRest with get_config handing out references into the store instead of
\* clones: a publication shows in every snapshot a task holds.
ParseRest_Aliased(p) ==
    /\ pc[p] = "parse"
    /\ LET r == ParseOutcome(Unwrap(contents[p]), path[p])
       IN /\ calls' = [calls EXCEPT ![p] = r.calls]
          /\ config' = [config EXCEPT ![p] = r.store]
          /\ CONFIG' = IF IsSome(r.store) THEN Unwrap(r.store) ELSE CONFIG
          /\ old_config' = [q \in Procs |->
                               IF IsSome(old_config[q]) /\ IsSome(r.store)
                               THEN r.store ELSE old_config[q]]
          /\ last_load' = IF r.ok /\ op[p] = "load" THEN Some(path[p]) ELSE last_load
          /\ IF ~r.ok
             THEN Fail(p)
             ELSE IF op[p] = "load"
                  THEN /\ result' = [result EXCEPT ![p] = "Ok"]
                       /\ pc' = [pc EXCEPT ![p] = "done"]
                  ELSE /\ pc' = [pc EXCEPT ![p] = "compare"]
                       /\ UNCHANGED result
    /\ UNCHANGED <<files, pools, nwrites, nops, op, path, contents,
                   new_config, recreated, before, roles>>

\* The rest of parse: decode, validate, stamp the path, CONFIG.store.
ParseRest(p) ==
    /\ pc[p] = "parse"
    /\ LET r == ParseOutcome(Unwrap(contents[p]), path[p])
       IN /\ calls' = [calls EXCEPT ![p] = r.calls]
          /\ config' = [config EXCEPT ![p] = r.store]
          /\ CONFIG' = IF IsSome(r.store) THEN Unwrap(r.store) ELSE CONFIG
          /\ last_load' = IF r.ok /\ op[p] = "load" THEN Some(path[p]) ELSE last_load
          /\ IF ~r.ok
             THEN Fail(p)
             ELSE IF op[p] = "load"
                  THEN /\ result' = [result EXCEPT ![p] = "Ok"]
                       /\ pc' = [pc EXCEPT ![p] = "done"]
                  ELSE /\ pc' = [pc EXCEPT ![p] = "compare"]
                       /\ UNCHANGED result
    /\ UNCHANGED <<files, pools, nwrites, nops, op, path, contents, old_config,
                   new_config, recreated, before, roles>>

\* reload_config after parse: new_config = get_config() and the comparison.
Compare(p) ==
    /\ pc[p] = "compare"
    /\ new_config' = [new_config EXCEPT ![p] = Some(get_config)]
    /\ LET old == Unwrap(old_config[p])
           new == get_config
       IN IF TopologyChanged(old, new)
          THEN /\ pc' = [pc EXCEPT ![p] = "pool"]
               /\ UNCHANGED result
          ELSE /\ pc' = [pc EXCEPT ![p] = "done"]
               /\ result' = [result EXCEPT ![p] =
                                IF Changed(old, new) THEN "OkTrue" ELSE "OkFalse"]
    /\ UNCHANGED <<shared, nops, op, path, contents, old_config, config, calls,
                   recreated, before, history, roles>>

\* ConnectionPool::from_config(client_server_map): it is given no Config and
\* builds the pools from the one the store holds when it runs.
from_config == Some(get_config)

\* ConnectionPool::from_config succeeds and reload_config returns Ok(true).
PoolOk(p) ==
    /\ pc[p] = "pool"
    /\ pools' = from_config
    /\ recreated' = [recreated EXCEPT ![p] = TRUE]
    /\ result' = [result EXCEPT ![p] = "OkTrue"]
    /\ pc' = [pc EXCEPT ![p] = "done"]
    /\ UNCHANGED <<CONFIG, files, nwrites, nops, op, path, contents, old_config,
                   config, new_config, calls, before, history, roles>>

\* PoolFail putting old_config back into the store.
PoolFail_Rollback(p) ==
    /\ pc[p] = "pool"
    /\ CONFIG' = Unwrap(old_config[p])
    /\ recreated' = [recreated EXCEPT ![p] = TRUE]
    /\ result' = [result EXCEPT ![p] = "PoolError"]
    /\ pc' = [pc EXCEPT ![p] = "done"]
    /\ UNCHANGED <<files, pools, nwrites, nops, op, path, contents, old_config,
                   config, new_config, calls, before, history, roles>>

\* ConnectionPool::from_config fails and `?` returns its error.
PoolFail(p) ==
    /\ pc[p] = "pool"
    /\ recreated' = [recreated EXCEPT ![p] = TRUE]
    /\ result' = [result EXCEPT ![p] = "PoolError"]
    /\ pc' = [pc EXCEPT ![p] = "done"]
    /\ UNCHANGED <<shared, nops, op, path, contents, old_config, config,
                   new_config, calls, before, history, roles>>

\* The caller has the result; the task's locals are dropped.
Return(p) ==
    /\ pc[p] = "done"
    /\ pc' = [pc EXCEPT ![p] = "idle"]
    /\ op' = [op EXCEPT ![p] = "none"]
    /\ path' = [path EXCEPT ![p] = ""]
    /\ contents' = [contents EXCEPT ![p] = None]
    /\ old_config' = [old_config EXCEPT ![p] = None]
    /\ config' = [config EXCEPT ![p] = None]
    /\ new_config' = [new_config EXCEPT ![p] = None]
    /\ calls' = [calls EXCEPT ![p] = <<>>]
    /\ recreated' = [recreated EXCEPT ![p] = FALSE]
    /\ before' = [before EXCEPT ![p] = None]
    /\ result' = [result EXCEPT ![p] = "none"]
    /\ UNCHANGED <<shared, nops, history, roles>>

\* The environment rewrites, creates or removes a configuration file.
WriteFile(f, st) ==
    /\ nwrites < MaxWrites
    /\ files[f] /= st
    /\ files' = [files EXCEPT ![f] = st]
    /\ nwrites' = nwrites + 1
    /\ UNCHANGED <<CONFIG, pools, nops, pc, op, path, contents, old_config,
                   config, new_config, calls, recreated, before, result,
                   history, roles>>

Step(p) ==
    \/ Open(p)
    \/ Read(p)
    \/ ParseRest(p)
    \/ Compare(p)
    \/ PoolOk(p)
    \/ PoolFail(p)
    \/ Return(p)

InitTasks ==
    /\ nops = 0
    /\ nwrites = 0
    /\ pc = [p \in Procs |-> "idle"]
    /\ op = [p \in Procs |-> "none"]
    /\ path = [p \in Procs |-> ""]
    /\ contents = [p \in Procs |-> None]
    /\ old_config = [p \in Procs |-> None]
    /\ config = [p \in Procs |-> None]
    /\ new_config = [p \in Procs |-> None]
    /\ calls = [p \in Procs |-> <<>>]
    /\ recreated = [p \in Procs |-> FALSE]
    /\ before = [p \in Procs |-> None]
    /\ result = [p \in Procs |-> "none"]
    /\ last_load = None

(***************************************************************************)
(* Role and its comparisons with Option<Role>.                             *)
(***************************************************************************)
Role == {"Primary", "Replica"}

OptionRole == {None} \cup {Some(r) : r \in Role}

\* impl PartialEq<Option<Role>> for Role: role == other.
Role_eq(self, other) ==
    IF other = None THEN TRUE ELSE self = Unwrap(other)

\* Option_eq with None matching nothing.
Option_eq_Strict(self, other) ==
    IF self = None THEN FALSE ELSE Unwrap(self) = other

\* impl PartialEq<Role> for Option<Role>: other == role.
Option_eq(self, other) ==
    IF self = None THEN TRUE ELSE Unwrap(self) = other

\* The next pair is compared in both argument orders.
CompareRoles ==
    /\ Len(results) < Len(pairs)
    /\ LET role == pairs[Len(results) + 1][1]
           other == pairs[Len(results) + 1][2]
       IN results' = Append(results, <<Role_eq(role, other), Option_eq(other, role)>>)
    /\ UNCHANGED <<shared, nops, pc, op, path, contents, old_config, config,
                   new_config, calls, recreated, before, result, history, pairs>>

\* No Role comparison is asked for.
InitRoles ==
    /\ pairs = <<>>
    /\ results = <<>>

(***************************************************************************)
(* Configuration documents.                                                *)
(***************************************************************************)
Shards1(servers) == [k \in {<<"1">>} |-> [servers |-> servers, database |-> "postgres"]]

Primary(host) == <<host, 5432, "primary">>
Replica(host) == <<host, 5432, "replica">>

WithTls(cert, key) ==
    [DefaultGeneral EXCEPT !.tls_certificate = cert, !.tls_private_key = key]

\* The document whose decoding is Config::default().
BaseDoc ==
    Doc(None, Some(DefaultGeneral), Some(DefaultUser),
        Some(Shards1(<<Primary("localhost")>>)), Some(DefaultQueryRouter))

ShardsDoc == [BaseDoc EXCEPT !.shards = Some(Shards1(<<Primary("a"), Replica("b")>>))]
UserDoc == [BaseDoc EXCEPT !.user = Some([DefaultUser EXCEPT !.password = "secret"])]
GeneralDoc == [BaseDoc EXCEPT !.general = Some([DefaultGeneral EXCEPT !.pool_size = 20])]
RouterDoc ==
    [BaseDoc EXCEPT !.query_router =
        Some([DefaultQueryRouter EXCEPT !.default_role = "replica"])]
CertOnlyDoc == [BaseDoc EXCEPT !.general = Some(WithTls(Some("cert.pem"), None))]
TlsDoc == [BaseDoc EXCEPT !.general = Some(WithTls(Some("cert.pem"), Some("key.pem")))]
KeyOnlyDoc == [BaseDoc EXCEPT !.general = Some(WithTls(None, Some("key.pem")))]
TwoPrimariesDoc ==
    [BaseDoc EXCEPT !.shards = Some(Shards1(<<Primary("a"), Primary("b")>>))]
DuplicateDoc ==
    [BaseDoc EXCEPT !.shards = Some(Shards1(<<Replica("a"), Replica("a")>>))]
NoServersDoc == [BaseDoc EXCEPT !.shards = Some(Shards1(<<>>))]
NoUserDoc == [BaseDoc EXCEPT !.user = None]
\* A document with a `path` key of its own.
PathDoc == [BaseDoc EXCEPT !.path = Some("alt.toml")]

\* What the environment may put at a path: the documents that differ from
\* BaseDoc in one section, and one file for each way parse can fail.
FileStates ==
    {Absent, Unreadable} \cup
    {FileOf(d) : d \in {BaseDoc, ShardsDoc, UserDoc, GeneralDoc, RouterDoc, TlsDoc,
                        KeyOnlyDoc, Garbage, NoUserDoc, TwoPrimariesDoc,
                        DuplicateDoc, NoServersDoc, CertOnlyDoc, PathDoc}}

\* The same for the concurrent specification.
FewFileStates ==
    {FileOf(d) : d \in {BaseDoc, ShardsDoc, GeneralDoc, TwoPrimariesDoc}}

\* The documents of the validation check: every combination of the fields
\* the validation chain reads.
ShardingFunctions == {"pg_bigint_hash", "sha1", "md5"}
DefaultRoles == {"any", "primary", "replica", "master"}
Certificates == {None, Some("cert.pem"), Some("bad.pem")}
PrivateKeys == {None, Some("key.pem"), Some("bad.key")}
ServerTuples == {Primary("a"), Primary("b"), Replica("a"), <<"a", 5432, "master">>}
ServerLists == UNION {[1..n -> ServerTuples] : n \in 0..MaxServers}
ShardOf(servers) == [servers |-> servers, database |-> "postgres"]
ShardKeys == {<<"0">>, <<"1", "0">>, <<"+", "1">>, <<"-", "1">>, <<"x">>, <<>>}
\* No shard, one shard under each key, or shard "0" beside a good or an
\* empty shard "1".
ShardMaps ==
    {<<>>}
    \cup {[k \in {key} |-> ShardOf(l)] : key \in ShardKeys, l \in ServerLists}
    \cup {[k \in {<<"0">>, <<"1">>} |-> ShardOf(IF k = <<"0">> THEN l ELSE m)] :
            l \in ServerLists, m \in {<<Primary("a")>>, <<>>}}

AllDocs ==
    {Doc(None, Some(WithTls(cert, key)), Some(DefaultUser), Some(sh),
         Some([DefaultQueryRouter EXCEPT !.sharding_function = sf,
                                         !.default_role = dr])) :
        cert \in Certificates, key \in PrivateKeys, sh \in ShardMaps,
        sf \in ShardingFunctions, dr \in DefaultRoles}

(***************************************************************************)
(* Specifications.                                                         *)
(***************************************************************************)
\* The store constructed from something other than Config::default().
InitStore_Other ==
    /\ CONFIG = [DefaultConfig EXCEPT !.general.pool_size = 20]
    /\ pools = None

InitStore ==
    /\ CONFIG = DefaultConfig
    /\ pools = None

Init ==
    /\ InitStore
    /\ InitTasks
    /\ InitRoles
    /\ files = [f \in Paths |-> IF f = default_path THEN FileOf(BaseDoc) ELSE Absent]

\* Tasks run load and reload concurrently; the environment edits the file at
\* the default path, beside a second file that stays as it is.
ConcInit ==
    /\ InitStore
    /\ InitTasks
    /\ InitRoles
    /\ files = [f \in Paths |-> IF f = default_path THEN FileOf(BaseDoc)
                                                   ELSE FileOf(ShardsDoc)]

Next ==
    \/ \E p \in Procs, f \in Paths : Load(p, f)
    \/ \E p \in Procs : Reload(p)
    \/ \E p \in Procs : Step(p)
    \/ \E st \in FewFileStates : WriteFile(default_path, st)

Spec == ConcInit /\ [][Next]_vars

\* Role comparisons alone, on any pairs of a Role and an Option<Role>.
RoleInit ==
    /\ InitStore
    /\ InitTasks
    /\ files = [f \in Paths |-> Absent]
    /\ pairs \in UNION {[1..n -> Role \X OptionRole] : n \in 0..MaxPairs}
    /\ results = <<>>

RoleNext == CompareRoles

RoleSpec == RoleInit /\ [][RoleNext]_vars

\* Concurrent reloads alone: the pools start out built from the active
\* configuration, pool recreation never fails, and the file at the default
\* path is edited from one valid version to the next, all different.
Versions == <<BaseDoc, ShardsDoc, UserDoc, GeneralDoc, RouterDoc>>

ReloadInit ==
    /\ CONFIG = DefaultConfig
    /\ pools = Some(DefaultConfig)
    /\ InitTasks
    /\ InitRoles
    /\ files = [f \in Paths |-> IF f = default_path THEN FileOf(Versions[1]) ELSE Absent]

Edit ==
    /\ nwrites + 1 < Len(Versions)
    /\ WriteFile(default_path, FileOf(Versions[nwrites + 2]))

ReloadNext ==
    \/ \E p \in Procs : Reload(p)
    \/ \E p \in Procs : Open(p)
    \/ \E p \in Procs : Read(p)
    \/ \E p \in Procs : ParseRest(p)
    \/ \E p \in Procs : Compare(p)
    \/ \E p \in Procs : PoolOk(p)
    \/ \E p \in Procs : Return(p)
    \/ Edit

ReloadSpec == ReloadInit /\ [][ReloadNext]_vars

\* One task loads and the other reloads the default path, whose file comes
\* and goes, valid or not.  Every task that is inside an operation takes its
\* next step eventually: file I/O and pool recreation return.
LiveFileStates == {Absent, FileOf(ShardsDoc), FileOf(TwoPrimariesDoc)}

LiveNext ==
    \/ Load("t1", default_path)
    \/ Reload("t2")
    \/ \E p \in Procs : Step(p)
    \/ \E st \in LiveFileStates : WriteFile(default_path, st)

LiveSpec == Init /\ [][LiveNext]_vars /\ \A p \in Procs : WF_vars(Step(p))

\* One task runs one operation after the other; the environment edits the
\* files at any time.
SeqNext ==
    \/ \E f \in Paths : Load("t1", f)
    \/ Reload("t1")
    \/ Step("t1")
    \/ \E f \in Paths, st \in FileStates : WriteFile(f, st)

SeqSpec == Init /\ [][SeqNext]_vars

\* One task loads one file, whose document is any of AllDocs.
ParseInit ==
    /\ InitStore
    /\ InitTasks
    /\ InitRoles
    /\ \E d \in AllDocs : files = [f \in Paths |-> IF f = default_path THEN FileOf(d) ELSE Absent]

ParseNext ==
    \/ Load("t1", default_path)
    \/ Open("t1")
    \/ Read("t1")
    \/ ParseRest("t1")
    \/ Return("t1")

ParseSpec == ParseInit /\ [][ParseNext]_vars

(***************************************************************************)
(* Properties.                                                             *)
(***************************************************************************)
Done(p) == pc[p] = "done"

\* The document the task read.
DocRead(p) == Unwrap(contents[p])

PrimaryCount(servers) ==
    Cardinality({i \in 1..Len(servers) : servers[i][3] = "primary"})

Distinct(servers) ==
    \A i, j \in 1..Len(servers) : i /= j => servers[i] /= servers[j]

TopologyDiffers(old, new) == old.shards /= new.shards \/ old.user /= new.user

\* The Parser or the Validator failed: the file could not be opened or read,
\* or its document does not decode, or it breaks a validation rule.
ParseFailed(p) ==
    \/ contents[p] = None
    \/ ~DecodeOk(DocRead(p))
    \/ ~Validate(Decode(DocRead(p))).ok

\* C1: a load or reload whose Parser or Validator fails returns BadConfig,
\* leaves the store (path included) as it was when the operation began, and
\* calls no pool recreation.
C1_FailureLeavesStore ==
    \A p \in Procs :
        (Done(p) /\ ParseFailed(p)) =>
            /\ result[p] = "BadConfig"
            /\ CONFIG = Unwrap(before[p])
            /\ config[p] = None
            /\ ~recreated[p]

\* A reload fails in validation after an earlier load replaced the default.
C1_Witness ==
    /\ Done("t1")
    /\ op["t1"] = "reload"
    /\ contents["t1"] = Some(TwoPrimariesDoc)
    /\ CONFIG /= DefaultConfig
    /\ result["t1"] = "BadConfig"

\* The structural rules, stated on the decoded candidate.
StructuralRules(c) ==
    /\ c.query_router.sharding_function \in {"pg_bigint_hash", "sha1"}
    /\ \A key \in DOMAIN c.shards :
          /\ ParseUsizeOk(key)
          /\ Len(c.shards[key].servers) >= 1
          /\ \A i \in 1..Len(c.shards[key].servers) :
                c.shards[key].servers[i][3] \in {"primary", "replica"}
          /\ PrimaryCount(c.shards[key].servers) <= 1
          /\ Distinct(c.shards[key].servers)
    /\ c.query_router.default_role \in {"any", "primary", "replica"}

\* C2: for a decodable candidate without a TLS certificate, load succeeds and
\* publishes the candidate exactly when every structural rule holds, and
\* returns BadConfig when one is broken.
C2_LoadIffRules ==
    \A p \in Procs :
        (/\ Done(p)
         /\ op[p] = "load"
         /\ IsSome(contents[p])
         /\ DecodeOk(DocRead(p))
         /\ Decode(DocRead(p)).general.tls_certificate = None) =>
            LET c == Decode(DocRead(p))
            IN IF StructuralRules(c)
               THEN /\ result[p] = "Ok"
                    /\ CONFIG = [c EXCEPT !.path = path[p]]
               ELSE /\ result[p] = "BadConfig"
                    /\ CONFIG = Unwrap(before[p])

\* A candidate that breaks only the duplicate rule is refused.
C2_Witness ==
    /\ Done("t1")
    /\ IsSome(contents["t1"])
    /\ LET c == Decode(DocRead("t1"))
       IN /\ c.general.tls_certificate = None
          /\ c.query_router.sharding_function = "sha1"
          /\ c.query_router.default_role = "any"
          /\ DOMAIN c.shards = {<<"0">>}
          /\ c.shards[<<"0">>].servers = <<Replica("a"), Replica("a")>>
    /\ result["t1"] = "BadConfig"

\* C3: every shard of the active configuration has at least one server, at
\* most one primary and no two equal (host, port, role) tuples.
C3_ActiveShardsWellFormed ==
    \A key \in DOMAIN CONFIG.shards :
        LET servers == CONFIG.shards[key].servers
        IN /\ Len(servers) >= 1
           /\ PrimaryCount(servers) <= 1
           /\ Distinct(servers)

\* A document with two primaries was refused by a reload while the store
\* holds a loaded two-server shard.
C3_Witness ==
    /\ Done("t1")
    /\ contents["t1"] = Some(TwoPrimariesDoc)
    /\ result["t1"] = "BadConfig"
    /\ CONFIG.shards = Unwrap(ShardsDoc.shards)

\* C4: on a reload whose parse succeeded, pool recreation is invoked exactly
\* when the shards or the user of the new configuration differ from the
\* snapshot; a reload that returns Ok returns true exactly when the new
\* configuration differs from the snapshot in any field.
C4_DiffBoundary ==
    \A p \in Procs :
        (Done(p) /\ op[p] = "reload" /\ IsSome(config[p])) =>
            LET old == Unwrap(old_config[p])
                new == Unwrap(config[p])
            IN /\ recreated[p] <=> TopologyDiffers(old, new)
               /\ result[p] \in {"OkTrue", "OkFalse", "PoolError"}
               /\ result[p] = "OkTrue" => new /= old
               /\ result[p] = "OkFalse" => new = old
               /\ result[p] = "PoolError" => TopologyDiffers(old, new)

\* A reload that changed only `general` or only `query_router` returned true
\* without pool recreation.
C4_Witness ==
    /\ Done("t1")
    /\ op["t1"] = "reload"
    /\ result["t1"] = "OkTrue"
    /\ ~recreated["t1"]
    /\ Unwrap(config["t1"]).query_router /= Unwrap(old_config["t1"]).query_router
    /\ Unwrap(config["t1"]).general = Unwrap(old_config["t1"]).general

\* C5: a reload that reads the content the active configuration came from
\* returns false, invokes no pool recreation, and leaves in the store the
\* value readers saw before.
C5_IdenticalReloadUnchanged ==
    \A p \in Procs :
        (/\ Done(p)
         /\ op[p] = "reload"
         /\ IsSome(contents[p])
         /\ DecodeOk(DocRead(p))
         /\ [Decode(DocRead(p)) EXCEPT !.path = path[p]] = Unwrap(old_config[p])) =>
            /\ result[p] = "OkFalse"
            /\ ~recreated[p]
            /\ CONFIG = Unwrap(old_config[p])
            /\ CONFIG = Unwrap(before[p])

\* An identical reload of a configuration that an earlier load published.
C5_Witness ==
    /\ Done("t1")
    /\ op["t1"] = "reload"
    /\ result["t1"] = "OkFalse"
    /\ CONFIG /= DefaultConfig
    /\ CONFIG = Unwrap(old_config["t1"])

\* A topology-changing reload has published its new configuration.
PublishedTopologyChange(p) ==
    /\ op[p] = "reload"
    /\ IsSome(config[p])
    /\ TopologyDiffers(Unwrap(old_config[p]), Unwrap(config[p]))

\* C6 as claimed: pool recreation is signalled before the new configuration
\* is published, so the store never holds it while recreation is yet to be
\* invoked.
C6_RecreateBeforePublish ==
    \A p \in Procs :
        (PublishedTopologyChange(p) /\ CONFIG = Unwrap(config[p])) => recreated[p]

\* C6 as amended: publish, then recreate, then report.  Pool recreation is
\* invoked only after the new configuration is in the store, and "changed"
\* is reported only after pool recreation was invoked.
C6_PublishThenRecreate ==
    \A p \in Procs :
        /\ recreated[p] => (PublishedTopologyChange(p) /\ CONFIG = Unwrap(config[p]))
        /\ (PublishedTopologyChange(p) /\ result[p] /= "none") => recreated[p]
        /\ (PublishedTopologyChange(p) /\ result[p] = "none") => ~recreated[p]

\* The new configuration is in the store and pool recreation is yet to run.
C6_Witness ==
    /\ pc["t1"] = "pool"
    /\ PublishedTopologyChange("t1")
    /\ CONFIG = Unwrap(config["t1"])
    /\ ~recreated["t1"]

\* C7: a reload that invoked pool recreation returns true or an error; when
\* it returns the error, the store holds the configuration the reload
\* published, which differs from the snapshot: nothing rolled it back.
C7_NoRollback ==
    \A p \in Procs :
        (Done(p) /\ recreated[p]) =>
            /\ result[p] \in {"OkTrue", "PoolError"}
            /\ result[p] = "PoolError" =>
                  /\ CONFIG = Unwrap(config[p])
                  /\ CONFIG /= Unwrap(old_config[p])
                  /\ CONFIG /= Unwrap(before[p])

\* A reload failed in pool recreation.
C7_Witness ==
    /\ Done("t1")
    /\ result["t1"] = "PoolError"
    /\ CONFIG.user /= Unwrap(old_config["t1"]).user

Errors == {"BadConfig", "PoolError"}

\* C8 as claimed: whenever load or reload returns an error, the store is as
\* it was before the operation.
C8_ErrorLeavesStore ==
    \A p \in Procs :
        (Done(p) /\ result[p] \in Errors) => CONFIG = Unwrap(before[p])

\* C8 as amended: whenever load or reload returns an error, the store is as
\* it was before the operation unless the error is a failed pool recreation,
\* and then it holds the configuration the reload published.
C8_ErrorLeavesStoreUnlessPool ==
    \A p \in Procs :
        (Done(p) /\ result[p] \in Errors) =>
            IF result[p] = "PoolError"
            THEN CONFIG = Unwrap(config[p])
            ELSE CONFIG = Unwrap(before[p])

\* A load of a file with a certificate and no key failed after a load had
\* replaced the default.
C8_Witness ==
    /\ Done("t1")
    /\ op["t1"] = "load"
    /\ contents["t1"] = Some(CertOnlyDoc)
    /\ result["t1"] = "BadConfig"
    /\ CONFIG /= DefaultConfig

\* C9 as claimed: the active configuration has tls_certificate and
\* tls_private_key both set or both unset.
C9_TlsBothOrNeither ==
    IsSome(CONFIG.general.tls_certificate) <=> IsSome(CONFIG.general.tls_private_key)

\* C9 as amended: if the active configuration has tls_certificate set then
\* tls_private_key is set too; a key without a certificate is accepted.
C9_TlsCertificateImpliesKey ==
    IsSome(CONFIG.general.tls_certificate) => IsSome(CONFIG.general.tls_private_key)

\* A configuration with both set is active.
C9_Witness ==
    /\ IsSome(CONFIG.general.tls_certificate)
    /\ IsSome(CONFIG.general.tls_private_key)

\* C10: the TLS decision of a candidate that passed the structural rules.
\* A certificate that fails to decode fails validation and the key decoder
\* is not called; one that decodes passes exactly when the key is set and
\* decodes; without a certificate no decoder is called and validation passes
\* whatever the key.
C10_TlsDecision ==
    \A p \in Procs :
        (/\ Done(p)
         /\ IsSome(contents[p])
         /\ DecodeOk(DocRead(p))
         /\ StructuralRules(Decode(DocRead(p)))) =>
            LET cert == Decode(DocRead(p)).general.tls_certificate
                key == Decode(DocRead(p)).general.tls_private_key
            IN IF cert = None
               THEN calls[p] = <<>> /\ result[p] = "Ok"
               ELSE IF ~load_certs(Unwrap(cert))
               THEN calls[p] = <<"load_certs">> /\ result[p] = "BadConfig"
               ELSE IF key = None
               THEN calls[p] = <<"load_certs">> /\ result[p] = "BadConfig"
               ELSE /\ calls[p] = <<"load_certs", "load_keys">>
                    /\ result[p] = IF load_keys(Unwrap(key)) THEN "Ok" ELSE "BadConfig"

\* A bad certificate beside a good key: refused, the key decoder not called.
C10_Witness ==
    /\ Done("t1")
    /\ IsSome(contents["t1"])
    /\ Decode(DocRead("t1")).general.tls_certificate = Some("bad.pem")
    /\ Decode(DocRead("t1")).general.tls_private_key = Some("key.pem")
    /\ StructuralRules(Decode(DocRead("t1")))
    /\ calls["t1"] = <<"load_certs">>
    /\ result["t1"] = "BadConfig"

\* A candidate that decoded and passed the whole validation chain.
Validated(doc) == DecodeOk(doc) /\ Validate(Decode(doc)).ok

\* The store takes a new value in this step only as the stamped candidate of
\* a task whose document decoded and passed validation.
PublishesValidated ==
    CONFIG' /= CONFIG =>
        \E q \in Procs :
            /\ pc[q] = "parse"
            /\ Validated(DocRead(q))
            /\ CONFIG' = [Decode(DocRead(q)) EXCEPT !.path = path[q]]

\* A value a task obtains from the store in this step (reload_config's
\* old_config and new_config, the Config the pools are built from) is the
\* whole value the store holds at that step.
ReadsWhole ==
    /\ \A p \in Procs :
          /\ (old_config'[p] /= old_config[p] /\ IsSome(old_config'[p])) =>
                (old_config'[p] = Some(CONFIG) /\ CONFIG' = CONFIG)
          /\ (new_config'[p] /= new_config[p] /\ IsSome(new_config'[p])) =>
                (new_config'[p] = Some(CONFIG) /\ CONFIG' = CONFIG)
    /\ (pools' /= pools) => (pools' = Some(CONFIG) /\ CONFIG' = CONFIG)

\* C11: under any interleaving, the store holds the default or a validated
\* candidate in full, it changes only by the publication of a validated
\* candidate, and every value read from it is the whole value it held at the
\* step of the read.
C11_ReadsOneWholeConfig ==
    /\ [](CONFIG = DefaultConfig \/ (StructuralRules(CONFIG) /\ CONFIG.path \in Paths))
    /\ [][PublishesValidated /\ ReadsWhole]_vars

\* A reload holds a snapshot that is neither the default nor what the store
\* holds now, while the other task is inside an operation of its own.
C11_Witness ==
    \E p, q \in Procs :
        /\ p /= q
        /\ IsSome(old_config[p])
        /\ Unwrap(old_config[p]) /= DefaultConfig
        /\ Unwrap(old_config[p]) /= CONFIG
        /\ pc[q] \in {"parse", "compare"}

\* A snapshot a task holds stays as it is in every step, until the task
\* returns and drops it.
SnapshotKept(snapshot, p) ==
    IsSome(snapshot[p]) =>
        \/ snapshot'[p] = snapshot[p]
        \/ pc[p] = "done" /\ snapshot'[p] = None

\* C12: a snapshot obtained from the store is a copy: no step of any task,
\* a publication included, changes a snapshot a task holds, and the snapshot
\* a reload took at its start is the configuration that was active then, also
\* after the reload's own parse has published.
C12_SnapshotsIndependent ==
    /\ [](\A p \in Procs : op[p] = "reload" => old_config[p] = before[p])
    /\ [][\A p \in Procs : /\ SnapshotKept(old_config, p)
                           /\ SnapshotKept(new_config, p)]_vars

\* A reload has published a configuration other than its snapshot, and the
\* snapshot is still the configuration from before the reload.
C12_Witness ==
    \E p \in Procs :
        /\ op[p] = "reload"
        /\ pc[p] = "compare"
        /\ IsSome(config[p])
        /\ config[p] /= old_config[p]
        /\ CONFIG = Unwrap(config[p])
        /\ old_config[p] = before[p]

\* C13: when a load has returned Ok, the store holds the candidate decoded
\* from the document read, with its path set to the argument of the load,
\* whatever path the document names; the value a parse hands to the store
\* carries the stamp already.
C13_LoadStampsPath ==
    \A p \in Procs :
        /\ (Done(p) /\ op[p] = "load" /\ result[p] = "Ok") =>
              CONFIG = [Decode(DocRead(p)) EXCEPT !.path = path[p]]
        /\ IsSome(config[p]) => Unwrap(config[p]).path = path[p]

\* A load of pgcat.toml has succeeded on a document that names another path.
C13_Witness ==
    /\ Done("t1")
    /\ op["t1"] = "load"
    /\ result["t1"] = "Ok"
    /\ path["t1"] = "pgcat.toml"
    /\ Decode(DocRead("t1")).path = "alt.toml"
    /\ CONFIG.path = "pgcat.toml"

\* C14 as stated: as long as no load has returned Ok, the store holds the
\* default Config.
C14_DefaultUntilFirstLoad == last_load = None => CONFIG = DefaultConfig

\* The parse of task q succeeds in this step, inside a load or a reload.
ParseSucceeds(q) ==
    /\ pc[q] = "parse"
    /\ op[q] \in {"load", "reload"}
    /\ Validated(DocRead(q))
    /\ pc'[q] \in {"done", "compare"}
    /\ result'[q] /= "BadConfig"

\* C14: the store starts as the default Config (path "pgcat.toml", one shard
\* "1" with the server (localhost, 5432, primary), default general, user and
\* query_router), leaves it only in the step in which the parse of a load or
\* of a reload succeeds, and still holds it when an operation that began on
\* the default has failed.
C14_DefaultUntilFirstParse ==
    /\ CONFIG = [path |-> "pgcat.toml",
                 general |-> DefaultGeneral,
                 user |-> DefaultUser,
                 shards |-> [k \in {<<"1">>} |->
                               [servers |-> <<<<"localhost", 5432, "primary">>>>,
                                database |-> "postgres"]],
                 query_router |-> DefaultQueryRouter]
    /\ [][(CONFIG = DefaultConfig /\ CONFIG' /= DefaultConfig) =>
              \E q \in Procs : ParseSucceeds(q)]_vars
    /\ [](\A p \in Procs :
            (Done(p) /\ result[p] = "BadConfig" /\ before[p] = Some(DefaultConfig)) =>
                CONFIG = DefaultConfig)

\* A reload has failed on a file that breaks a validation rule, after an
\* earlier operation, and the store still holds the default.
C14_Witness ==
    /\ Done("t1")
    /\ op["t1"] = "reload"
    /\ result["t1"] = "BadConfig"
    /\ contents["t1"] = Some(TwoPrimariesDoc)
    /\ nops >= 2
    /\ last_load = None
    /\ CONFIG = DefaultConfig

\* C15: a Role and an Option<Role> compare the same in both argument orders;
\* an absent role equals every role, and Some(q) equals r exactly when q = r.
C15_RoleWildcardSymmetric ==
    \A i \in 1..Len(results) :
        LET r == pairs[i][1]
            o == pairs[i][2]
        IN /\ results[i][1] = results[i][2]
           /\ o = None => results[i][1]
           /\ \A q \in Role : o = <<q>> => (results[i][1] <=> q = r)

\* An absent role, an equal role and a different role have been compared.
C15_Witness ==
    /\ Len(results) = 3
    /\ \E i, j, k \in 1..3 :
          /\ pairs[i][2] = None
          /\ pairs[j][2] = <<pairs[j][1]>>
          /\ pairs[k][2] \notin {None, <<pairs[k][1]>>}

\* C16: a reload parses the path of the configuration that was active when it
\* began, so a reload whose parse succeeded leaves the active path as it was;
\* with operations run one at a time, the active path is the path of the
\* latest successful load, or "pgcat.toml" when no load has succeeded.
C16_PathOfLastLoad ==
    /\ CONFIG.path = IF last_load = None THEN "pgcat.toml" ELSE Unwrap(last_load)
    /\ \A p \in Procs :
          op[p] = "reload" =>
              /\ path[p] = Unwrap(before[p]).path
              /\ (Done(p) /\ result[p] /= "BadConfig") =>
                    /\ CONFIG = Unwrap(config[p])
                    /\ CONFIG.path = Unwrap(before[p]).path

\* After a load of alt.toml, a reload has published a changed configuration
\* read from alt.toml.
C16_Witness ==
    /\ Done("t1")
    /\ op["t1"] = "reload"
    /\ result["t1"] = "OkTrue"
    /\ last_load = Some("alt.toml")
    /\ CONFIG /= Unwrap(before["t1"])
    /\ CONFIG.path = "alt.toml"

\* The stages of an invocation, in the order of the code.
Stages == <<"open", "read", "parse", "compare", "pool", "done">>

StageOf(s) == CHOOSE i \in 1..Len(Stages) : Stages[i] = s

\* A task moves only from idle into open, forward through the stages, and
\* from done back to idle; pool recreation is called in the pool stage only.
MovesForward(p) ==
    /\ pc'[p] /= pc[p] =>
          \/ pc[p] = "idle" /\ pc'[p] = "open"
          \/ pc[p] = "done" /\ pc'[p] = "idle"
          \/ /\ pc[p] /= "idle"
             /\ pc'[p] /= "idle"
             /\ StageOf(pc'[p]) > StageOf(pc[p])
    /\ (recreated'[p] /\ ~recreated[p]) => (pc[p] = "pool" /\ pc'[p] = "done")

\* C17: with every step of a started invocation eventually taken, every load
\* and reload reaches its return with a result; an invocation goes through
\* each stage at most once, so it parses once and recreates pools at most
\* once.
C17_Terminates ==
    /\ \A p \in Procs : (pc[p] /= "idle") ~> (pc[p] = "done" /\ result[p] /= "none")
    /\ [][\A p \in Procs : MovesForward(p)]_vars

\* A reload has returned after parsing and recreating the pools, and a load
\* has returned an error.
C17_Witness ==
    \E p, q \in Procs :
        /\ Done(p)
        /\ op[p] = "reload"
        /\ recreated[p]
        /\ Done(q)
        /\ result[q] = "BadConfig"

\* No reload is in progress, and none has returned an error.
ReloadsReturned ==
    \A p \in Procs :
        /\ pc[p] \in {"idle", "done"}
        /\ result[p] \in {"none", "OkTrue", "OkFalse"}

\* C18: once every concurrent reload has returned successfully, the
\* configuration the pools were last built from has the shards and the user
\* of the configuration in the store.
C18_PoolsMatchStore ==
    ReloadsReturned => ~TopologyDiffers(Unwrap(pools), CONFIG)

\* C19: a reload that has returned false published the configuration of its
\* pre-reload snapshot.
C19_FalseMeansUnchanged ==
    \A p \in Procs :
        (Done(p) /\ op[p] = "reload" /\ result[p] = "OkFalse") =>
            config[p] = old_config[p]

\* The version of the file a document is.
VersionOf(doc) == CHOOSE i \in 1..Len(Versions) : Versions[i] = doc

\* Task p publishes in this step, from content older than the content from
\* which task q published the configuration now in the store.
StaleOverwrite(p, q) ==
    /\ pc[p] = "parse"
    /\ IsSome(config'[p])
    /\ CONFIG' /= CONFIG
    /\ config[q] = Some(CONFIG)
    /\ VersionOf(DocRead(p)) < VersionOf(DocRead(q))

\* C20: a reload that read older content of the source never overwrites a
\* configuration published from newer content, so that the store ends with
\* the configuration decoded from the current content.
C20_NoStaleOverwrite ==
    [][\A p, q \in Procs : ~StaleOverwrite(p, q)]_vars

====
